---- MODULE Spec2Model ----
(***************************************************************************)
(* cellscan: the Coordinator (start.py, Runner), the Network Scanner       *)
(* worker (radio.py, RadioThread), the Uploader (upload.py, UploadThread)  *)
(* and the record store (data.py), as one state machine, together with the *)
(* AT request/response engine and the survey parser as step-wise           *)
(* computations over bounded inputs.                                       *)
(***************************************************************************)
EXTENDS Integers, Sequences, FiniteSets, Bags, TLC

(***************************************************************************)
(* Bounds of the model.                                                    *)
(***************************************************************************)
MaxQueue == 1        \* events the producers may leave pending in Runner.q
MaxRadios == 2       \* RadioThreads that can be running at one time
MaxRecords == 2      \* rows of the Cellsite table
MaxFailPolls == 12   \* bearer status polls that may report "not connected"
MaxReply == 4        \* lines of one modem reply read by __atGetResp
MaxLines == 3        \* payload lines of one survey response
MaxAfter == 2        \* survey cycles counted after RadioThread.stop()
MaxCopies == 2       \* copies of one row the collection server may hold
MaxBacklog == 3      \* events pending on Runner.q while an upload runs

(***************************************************************************)
(* Program constants.                                                      *)
(***************************************************************************)
BearerRetryLimit == 10   \* upload.py: if retryCount > 10
UploadAttempts == 5      \* upload.py: while attempts < 5
PressThreshold == 1      \* start.py: event[1]['time'] < 1

None == 0                \* Python's None for self.locn

Positions == {1, 2}                 \* distinct {lat, lon, alt} fixes
SiteLists == {<<>>, <<"a">>, <<"a", "b">>}   \* results of one survey cycle
PressTimes == {0, 1}                \* press durations, in seconds

VARIABLES
    q,                    \* Runner.q: the shared event queue
    locn,                 \* Runner.locn: latest fix, or None
    radio,                \* Runner.radio: the RadioThread it refers to (pc, live)
    radioShouldBeRunning, \* Runner.radioShouldBeRunning
    ledmode,              \* PanelThread.ledmode
    cpc,                  \* where the Runner's (main) thread is
    orphans,              \* bag of running RadioThreads nothing refers to
    store,                \* the Cellsite table: rows in insertion order
    retryCount,           \* __getDataConnection's retryCount
    attempts,             \* __uploadData's attempts
    sent,                 \* ids of the rows serialized into dataString
    exc,                  \* exception in flight inside UploadThread.run
    okSeen,               \* this run received a reply with status "OK"
    startStore,           \* the table as it was when this run started
    bearerUp,             \* this run connected the bearer and has not released it
    ucNoFix,              \* UploadComplete handled, no LocationFix since
    ndNoFix,              \* a non-empty NetworkData was handled while ucNoFix
    at,                   \* one __atGetResp call
    sv,                   \* one __networkScan parse
    rt,                   \* one RadioThread.run, statement by statement
    srv,                  \* the collection server (server.py) and its table
    gc                    \* one __getDataConnection, statement by statement

radioVars == <<orphans>>
uplVars == <<retryCount, attempts, sent, exc, okSeen, startStore, bearerUp>>
histVars == <<ucNoFix, ndNoFix>>
funVars == <<at, sv, rt, srv, gc>>
sysVars == <<q, locn, radio, radioShouldBeRunning, ledmode, cpc, orphans, store>>
vars == <<q, locn, radio, radioShouldBeRunning, ledmode, cpc, orphans,
          store, retryCount, attempts, sent, exc, okSeen,
          startStore, bearerUp, ucNoFix, ndNoFix, at, sv, rt, srv, gc>>

(***************************************************************************)
(* Events and rows.                                                        *)
(***************************************************************************)
Event(type, data) == [type |-> type, data |-> data]
UploadCompleteEvent == Event("UploadComplete", 0)

Cellsite(site, fix) == [site |-> site, locn |-> fix, uploaded |-> FALSE]

\* A RadioThread is where its run() is (pc) and its live flag.  Thread
\* objects that nothing refers to any more cannot be told apart, so they are
\* kept as a bag.
NoRadio == [pc |-> "None", live |-> FALSE]     \* self.radio = None
NoThread == [pc |-> "off", live |-> FALSE]     \* run() has returned
NewThread == [pc |-> "start", live |-> TRUE]   \* RadioThread(...).start()
ThreadAlive(th) == th.pc \in {"start", "loop", "scan"}

\* th is a running thread: self.radio's if ref, else an unreferenced one
IsThread(ref, th) == IF ref THEN th = radio ELSE BagIn(th, orphans)
ThreadStates == [pc : {"start", "loop", "scan"}, live : BOOLEAN]

\* thread th, the one self.radio refers to if ref, moves on to state new
SetThread(ref, th, new) ==
    IF ref
      THEN /\ radio' = new
           /\ orphans' = orphans
      ELSE /\ radio' = radio
           /\ orphans' = (orphans (-) SetToBag({th}))
                            (+) (IF ThreadAlive(new) THEN SetToBag({new}) ELSE EmptyBag)

RECURSIVE PendingSites(_)
PendingSites(queue) ==
    IF queue = <<>> THEN 0
    ELSE (IF Head(queue).type = "NetworkData" THEN Len(Head(queue).data) ELSE 0)
         + PendingSites(Tail(queue))

\* upload.py: Cellsite.select().where(Cellsite.uploaded == False)
UnuploadedIds(table) == {i \in 1..Len(table) : ~table[i].uploaded}

\* the update with its where clause inverted: it marks no unsent row
UpdateTxWrongWhere(table) ==
    [i \in 1..Len(table) |->
        [table[i] EXCEPT !.uploaded = IF table[i].uploaded THEN TRUE ELSE @]]

(***************************************************************************)
(* upload.py: Cellsite.update(uploaded=True).where(Cellsite.uploaded ==    *)
(* False), executed: every row that is not uploaded when it runs is marked.*)
(***************************************************************************)
UpdateTx(table) == [i \in 1..Len(table) |-> [table[i] EXCEPT !.uploaded = TRUE]]

\* a save that starts the table afresh
SaveCellSitesFresh(table, sites, fix) ==
    [i \in 1..Len(sites) |-> [site |-> sites[i], locn |-> fix, uploaded |-> FALSE]]

(***************************************************************************)
(* start.py, handleNetworkData: one saveCellSite per reported site, each   *)
(* with the position held in self.locn.                                    *)
(***************************************************************************)
SaveCellSites(table, sites, fix) ==
    table \o [i \in 1..Len(sites) |-> Cellsite(sites[i], fix)]

(***************************************************************************)
(* upload.py, __getDataConnection: the retry loop.  nfail is the number of *)
(* status polls, from the first one on, that do not report "connected".    *)
(***************************************************************************)
RECURSIVE GetDataConnectionLoop(_, _)
GetDataConnectionLoop(count, nfail) ==
    IF nfail = 0 THEN [retryCount |-> count, raised |-> FALSE]
    ELSE IF count > BearerRetryLimit THEN [retryCount |-> count, raised |-> TRUE]
    ELSE GetDataConnectionLoop(count + 1, nfail - 1)

(***************************************************************************)
(* upload.py, run: the bare "except:" catches every exception.             *)
(***************************************************************************)
RunCatches(e) == TRUE

(***************************************************************************)
(* The state after Runner.__init__ and Runner.setup(): panel and gnss      *)
(* threads started, no RadioThread yet, __main__ about to call uploadData. *)
(***************************************************************************)
\* The Cellsite table is a file that outlives the process: what a boot can
\* find is whatever earlier runs left, batches saved by handleNetworkData of
\* which a prefix was marked by earlier uploads.
Batch(sites, fix, up) ==
    [i \in 1..Len(sites) |-> [site |-> sites[i], locn |-> fix, uploaded |-> up]]

RECURSIVE StoresOf(_)
StoresOf(n) ==
    IF n = 0 THEN {<<>>}
    ELSE LET prev == StoresOf(n - 1) IN
         prev \cup
         {t \o Batch(sl, p, up) : t \in prev, sl \in SiteLists \ {<<>>},
                                  p \in Positions, up \in BOOLEAN}

BootStores ==
    {t \in StoresOf(MaxRecords) :
        /\ Len(t) <= MaxRecords
        /\ \A i, j \in 1..Len(t) : (i < j /\ t[j].uploaded) => t[i].uploaded}

AtIdle == [pc |-> "idle"]
SvIdle == [pc |-> "idle"]
RtIdle == [pc |-> "idle"]
SrvIdle == [pc |-> "idle"]
GcIdle == [pc |-> "idle"]

InitRunner ==
    /\ q = <<>>
    /\ locn = None
    /\ radio = NoRadio
    /\ radioShouldBeRunning = FALSE
    /\ ledmode = "off"
    /\ cpc = "boot"
    /\ orphans = EmptyBag

InitUpload ==
    /\ retryCount = 0
    /\ attempts = 0
    /\ sent = {}
    /\ exc = "none"
    /\ okSeen = FALSE
    /\ startStore = <<>>
    /\ bearerUp = FALSE

InitHist ==
    /\ ucNoFix = FALSE
    /\ ndNoFix = FALSE

Init ==
    /\ InitRunner
    /\ InitUpload
    /\ InitHist
    /\ store \in BootStores
    /\ at = AtIdle
    /\ sv = SvIdle
    /\ rt = RtIdle
    /\ srv = SrvIdle
    /\ gc = GcIdle

(***************************************************************************)
(* Producers outside the Runner: the panel button and the GNSS listener.   *)
(***************************************************************************)
\* n bounds the events left pending on the queue
PanelPressUpTo(d, n) ==
    /\ Len(q) < n
    /\ q' = Append(q, Event("PanelEvent", d))
    /\ UNCHANGED <<locn, radio, radioShouldBeRunning, ledmode, cpc, store>>
    /\ UNCHANGED <<radioVars, uplVars, histVars, funVars>>

PanelPress(d) == PanelPressUpTo(d, MaxQueue)

GnssFixUpTo(p, n) ==
    /\ Len(q) < n
    /\ q' = Append(q, Event("LocationFix", p))
    /\ UNCHANGED <<locn, radio, radioShouldBeRunning, ledmode, cpc, store>>
    /\ UNCHANGED <<radioVars, uplVars, histVars, funVars>>

GnssFix(p) == GnssFixUpTo(p, MaxQueue)

(***************************************************************************)
(* RadioThread.run.                                                        *)
(***************************************************************************)
\* run() up to the survey loop: modem lookup, "mmcli --inhibit", serial
\* open, __atReset, __atIdentify, __atEnableNMEA.  An exception ends the
\* thread; mmProcess is killed only after the survey loop.
RadioStartup(ref, th) ==
    /\ IsThread(ref, th)
    /\ th.pc = "start"
    /\ \E outcome \in {"failed", "ok"} :
         SetThread(ref, th, IF outcome = "ok" THEN [th EXCEPT !.pc = "loop"]
                                              ELSE NoThread)
    /\ UNCHANGED <<q, locn, radioShouldBeRunning, ledmode, cpc, store>>
    /\ UNCHANGED <<uplVars, histVars, funVars>>

\* "while self.live:", and after the loop mmProcess.kill()
RadioLoop(ref, th) ==
    /\ IsThread(ref, th)
    /\ th.pc = "loop"
    /\ SetThread(ref, th, IF th.live THEN [th EXCEPT !.pc = "scan"] ELSE NoThread)
    /\ UNCHANGED <<q, locn, radioShouldBeRunning, ledmode, cpc, store>>
    /\ UNCHANGED <<uplVars, histVars, funVars>>

\* one survey cycle: __networkScan and q.put, or an exception that is logged
RadioScanUpTo(ref, th, n) ==
    /\ IsThread(ref, th)
    /\ th.pc = "scan"
    /\ \/ \E sites \in SiteLists :
            /\ Len(q) < n
            /\ Len(store) + PendingSites(q) + Len(sites) <= MaxRecords
            /\ q' = Append(q, Event("NetworkData", sites))
       \/ q' = q
    /\ SetThread(ref, th, [th EXCEPT !.pc = "loop"])
    /\ UNCHANGED <<locn, radioShouldBeRunning, ledmode, cpc, store>>
    /\ UNCHANGED <<uplVars, histVars, funVars>>

RadioScan(ref, th) == RadioScanUpTo(ref, th, MaxQueue)

\* RadioThread.stop
RadioStop(th) == [th EXCEPT !.live = FALSE]

(***************************************************************************)
(* Runner.uploadData up to the point where it waits in join() or calls     *)
(* upload.run().                                                           *)
(***************************************************************************)
UploadData ==
    /\ ledmode' = "blink"
    /\ radioShouldBeRunning' = FALSE
    /\ IF radio # NoRadio /\ ThreadAlive(radio)
         THEN /\ radio' = RadioStop(radio)
              /\ cpc' = "join"
         ELSE /\ radio' = radio
              /\ cpc' = "run"

\* __main__: runner.uploadData() before the first step()
MainUploadData ==
    /\ cpc = "boot"
    /\ UploadData
    /\ UNCHANGED <<q, locn, store>>
    /\ UNCHANGED <<radioVars, uplVars, histVars, funVars>>

\* uploadData: self.radio.join() returns, then the settle delay
JoinRadio ==
    /\ cpc = "join"
    /\ ~ThreadAlive(radio)
    /\ cpc' = "run"
    /\ UNCHANGED <<q, locn, radio, radioShouldBeRunning, ledmode, store>>
    /\ UNCHANGED <<radioVars, uplVars, histVars, funVars>>

(***************************************************************************)
(* Runner.step and its handlers.                                           *)
(***************************************************************************)
\* a Runner that also takes events while UploadThread.run is sending
InStepOrSending == cpc \in {"idle", "cycle"}

\* __main__ calls step() again only when the handler of the previous event
\* has returned, uploadData and the upload.run() it calls included
InStep == cpc = "idle"

\* a fix that is kept once set
StashFirstFix(old, new) == IF old = None THEN new ELSE old

\* handleLocationFix: self.locn = event[1]
StashFix(old, new) == new

HandleLocationFix ==
    /\ InStep /\ q # <<>> /\ Head(q).type = "LocationFix"
    /\ q' = Tail(q)
    /\ locn' = StashFix(locn, Head(q).data)
    /\ ucNoFix' = FALSE
    /\ ndNoFix' = FALSE
    /\ UNCHANGED <<radio, radioShouldBeRunning, ledmode, cpc, store>>
    /\ UNCHANGED <<radioVars, uplVars, funVars>>

HandleNetworkData ==
    /\ InStep /\ q # <<>> /\ Head(q).type = "NetworkData"
    /\ q' = Tail(q)
    /\ IF locn # None
         THEN /\ ledmode' = IF radioShouldBeRunning THEN "on" ELSE ledmode
              /\ store' = SaveCellSites(store, Head(q).data, locn)
         ELSE UNCHANGED <<ledmode, store>>
    /\ ndNoFix' = (ndNoFix \/ (ucNoFix /\ Head(q).data # <<>>))
    /\ UNCHANGED <<locn, radio, radioShouldBeRunning, cpc, ucNoFix>>
    /\ UNCHANGED <<radioVars, uplVars, funVars>>

\* a press no longer than the threshold
ShortPressOrEqual(d) == d <= PressThreshold

\* every press
AnyPress(d) == TRUE

\* handlePanelEvent: event[1]['time'] < 1 (the type is always 'CtlButton')
ShortPress(d) == d < PressThreshold

HandlePanelEvent ==
    /\ InStep /\ q # <<>> /\ Head(q).type = "PanelEvent"
    /\ q' = Tail(q)
    /\ IF ShortPress(Head(q).data)
         THEN UploadData
         ELSE UNCHANGED <<ledmode, radioShouldBeRunning, radio, cpc>>
    /\ UNCHANGED <<locn, store>>
    /\ UNCHANGED <<radioVars, uplVars, histVars, funVars>>

\* the running RadioThreads
Running == BagCardinality(orphans) + (IF ThreadAlive(radio) THEN 1 ELSE 0)

\* self.radio = RadioThread(...): the thread self.radio referred to, if it
\* is still running, goes on running with nothing referring to it
Orphaned == IF ThreadAlive(radio) THEN orphans (+) SetToBag({radio}) ELSE orphans

\* the position kept across an upload
KeptLocn == locn

\* handleUploadComplete: self.locn = None
ClearedLocn == None

HandleUploadComplete ==
    /\ InStep /\ q # <<>> /\ Head(q).type = "UploadComplete"
    /\ Running < MaxRadios
    /\ orphans' = Orphaned
    /\ radio' = NewThread
    /\ q' = Tail(q)
    /\ radioShouldBeRunning' = TRUE
    /\ locn' = ClearedLocn
    /\ ledmode' = "off"
    /\ ucNoFix' = TRUE
    /\ ndNoFix' = FALSE
    /\ UNCHANGED <<cpc, store>>
    /\ UNCHANGED <<uplVars, funVars>>

(***************************************************************************)
(* UploadThread.run, called on the Runner's thread by uploadData.          *)
(***************************************************************************)
\* run() up to the return of __getDataConnection: modem and bearer lookup,
\* the retry loop, then clock, address, MTU and routes
GetDataConnection ==
    /\ cpc = "run"
    /\ startStore' = store
    /\ okSeen' = FALSE
    /\ \/ /\ exc' = "CalledProcessError"   \* a command before the loop fails
          /\ cpc' = "except"
          /\ retryCount' = 0
          /\ bearerUp' = FALSE
       \/ \E nfail \in 0..MaxFailPolls, configured \in BOOLEAN :
            LET r == GetDataConnectionLoop(0, nfail) IN
            /\ r.raised => configured
            /\ retryCount' = IF r.raised THEN r.retryCount ELSE 0
            /\ bearerUp' = ~r.raised
            \* configured: the "ip" commands after the loop all succeed
            /\ exc' = CASE r.raised -> "UploadException"
                         [] ~configured -> "CalledProcessError"
                         [] OTHER -> "none"
            /\ cpc' = IF r.raised \/ ~configured THEN "except" ELSE "upload"
    /\ UNCHANGED <<q, locn, radio, radioShouldBeRunning, ledmode, store>>
    /\ UNCHANGED <<attempts, sent>>
    /\ UNCHANGED <<radioVars, histVars, funVars>>

\* __uploadData: the select and the serialization of the unsent rows
UploadDataRead ==
    /\ cpc = "upload"
    /\ sent' = UnuploadedIds(store)
    /\ attempts' = 0
    /\ cpc' = "cycle"
    /\ UNCHANGED <<q, locn, radio, radioShouldBeRunning, ledmode, store>>
    /\ UNCHANGED <<retryCount, exc, okSeen, startStore, bearerUp>>
    /\ UNCHANGED <<radioVars, histVars, funVars>>

\* what one cycle ends with: a reply with status "OK", a reply with another
\* status, an exception (refused, reset, timeout, bad JSON), or the peer
\* closing the connection before any EOT byte
Replies == {"OK", "other", "ioerror", "closed"}

\* the commit run on every reply that parses, whatever its status
CommitOnAnyReply(table, reply) ==
    IF reply \in {"OK", "other"} THEN UpdateTx(table) ELSE table

\* the table after a cycle that got `reply`
Commit(table, reply) == IF reply = "OK" THEN UpdateTx(table) ELSE table

\* __uploadData: one connect + send + receive cycle
SendCycle ==
    /\ cpc = "cycle"
    /\ attempts < UploadAttempts
    /\ attempts' = attempts + 1
    /\ \E reply \in Replies :
         /\ store' = Commit(store, reply)
         /\ okSeen' = (okSeen \/ reply = "OK")
         /\ cpc' = CASE reply = "OK" -> "disable"
                     [] reply = "closed" -> "recv"
                     [] OTHER -> "cycle"
    /\ UNCHANGED <<q, locn, radio, radioShouldBeRunning, ledmode>>
    /\ UNCHANGED <<retryCount, sent, exc, startStore, bearerUp>>
    /\ UNCHANGED <<radioVars, histVars, funVars>>

\* __uploadData: the loop ends after the last failed cycle
GiveUp ==
    /\ cpc = "cycle"
    /\ ~(attempts < UploadAttempts)
    /\ cpc' = "disable"
    /\ UNCHANGED <<q, locn, radio, radioShouldBeRunning, ledmode, store>>
    /\ UNCHANGED <<radioVars, uplVars, histVars, funVars>>

\* __receiveObject after the peer closed without an EOT: recv returns b''
\* at once, message is unchanged and the loop condition still holds
ReceiveObject ==
    /\ cpc = "recv"
    /\ UNCHANGED vars

\* __disableNetworkConnection; the locals of __uploadData are gone
DisableNetworkConnection ==
    /\ cpc = "disable"
    /\ \/ /\ cpc' = "complete"
          /\ exc' = exc
          /\ bearerUp' = FALSE
       \/ /\ cpc' = "except"               \* "ip link ... down" or "mmcli -x" fails
          /\ exc' = "CalledProcessError"
          /\ bearerUp' = bearerUp
    /\ attempts' = 0
    /\ sent' = {}
    /\ UNCHANGED <<q, locn, radio, radioShouldBeRunning, ledmode, store>>
    /\ UNCHANGED <<retryCount, okSeen, startStore>>
    /\ UNCHANGED <<radioVars, histVars, funVars>>

\* run: "except: log.exception(...)"
RunExcept ==
    /\ cpc = "except"
    /\ cpc' = IF RunCatches(exc) THEN "complete" ELSE "crashed"
    /\ retryCount' = 0
    /\ UNCHANGED <<q, locn, radio, radioShouldBeRunning, ledmode, store>>
    /\ UNCHANGED <<attempts, sent, exc, okSeen, startStore, bearerUp>>
    /\ UNCHANGED <<radioVars, histVars, funVars>>

\* run: self.q.put(["UploadComplete", {}]), and uploadData returns
RunComplete ==
    /\ cpc = "complete"
    /\ q' = Append(q, UploadCompleteEvent)
    /\ cpc' = "idle"
    /\ exc' = "none"
    /\ okSeen' = FALSE
    /\ startStore' = <<>>
    /\ bearerUp' = FALSE                 \* the run, and what it owed, is over
    /\ UNCHANGED <<locn, radio, radioShouldBeRunning, ledmode, store>>
    /\ UNCHANGED <<retryCount, attempts, sent>>
    /\ UNCHANGED <<radioVars, histVars, funVars>>

UploadStep ==
    \/ GetDataConnection
    \/ UploadDataRead
    \/ SendCycle
    \/ GiveUp
    \/ ReceiveObject
    \/ DisableNetworkConnection
    \/ RunExcept
    \/ RunComplete

Next ==
    \/ \E d \in PressTimes : PanelPress(d)
    \/ \E p \in Positions : GnssFix(p)
    \/ \E ref \in BOOLEAN, th \in ThreadStates : RadioStartup(ref, th)
    \/ \E ref \in BOOLEAN, th \in ThreadStates : RadioLoop(ref, th)
    \/ \E ref \in BOOLEAN, th \in ThreadStates : RadioScan(ref, th)
    \/ MainUploadData
    \/ JoinRadio
    \/ HandleLocationFix
    \/ HandleNetworkData
    \/ HandlePanelEvent
    \/ HandleUploadComplete
    \/ UploadStep

Spec == Init /\ [][Next]_vars

(***************************************************************************)
(* The whole system again, with room on the queue for the events that      *)
(* arrive while an upload runs.  The table is full of uploaded rows, so     *)
(* every survey result is empty; every press is short; there is one fix.   *)
(***************************************************************************)
FullStores ==
    {t \in BootStores : Len(t) = MaxRecords /\ \A i \in 1..Len(t) : t[i].uploaded}

InitLed ==
    /\ InitRunner
    /\ InitUpload
    /\ InitHist
    /\ store \in FullStores
    /\ at = AtIdle
    /\ sv = SvIdle
    /\ rt = RtIdle
    /\ srv = SrvIdle
    /\ gc = GcIdle

LedNext ==
    \/ \E d \in {t \in PressTimes : ShortPress(t)} : PanelPressUpTo(d, MaxBacklog)
    \/ GnssFixUpTo(1, MaxBacklog)
    \/ \E ref \in BOOLEAN, th \in ThreadStates : RadioStartup(ref, th)
    \/ \E ref \in BOOLEAN, th \in ThreadStates : RadioLoop(ref, th)
    \/ \E ref \in BOOLEAN, th \in ThreadStates : RadioScanUpTo(ref, th, MaxBacklog)
    \/ MainUploadData
    \/ JoinRadio
    \/ HandleLocationFix
    \/ HandleNetworkData
    \/ HandlePanelEvent
    \/ HandleUploadComplete
    \/ UploadStep

LedSpec == InitLed /\ [][LedNext]_vars

\* UploadThread.run() is in progress
UploadRunning ==
    cpc \in {"run", "upload", "cycle", "recv", "disable", "except", "complete"}

(***************************************************************************)
(* The Uploader alone: the upload that __main__ starts at boot, on the     *)
(* Runner's thread, which keeps running until run() returns.               *)
(***************************************************************************)
UploadNext ==
    \/ MainUploadData
    \/ UploadStep

UploadSpec == Init /\ [][UploadNext]_vars /\ WF_vars(UploadNext)

(***************************************************************************)
(* upload.py, __getDataConnection: one call, statement by statement,       *)
(* followed by the rest of run().  gc.clock is how the clock               *)
(* synchronisation came out: "none" before it, "ok", or the step of it     *)
(* that failed; gc.failed is the step whose exception left the function.   *)
(***************************************************************************)
\* the statements of __getDataConnection, in program order
ConnSteps == <<"lookup", "flush", "enable", "simple", "bearer", "poll",
               "ntp", "time", "parse", "settime",
               "linkup", "addr", "mtu", "route", "routeTarget">>

\* the try block of the clock synchronisation: set-ntp false, mmcli --time,
\* the search for the time string, set-time
ClockSteps == {"ntp", "time", "parse", "settime"}

\* the commands after it: interface up, address, MTU and the two routes
IpSteps == {"linkup", "addr", "mtu", "route", "routeTarget"}

\* the first simple-connect, whose CalledProcessError is caught
ToleratedSteps == {"simple"}

\* a handler for the failure of a command alone: the failed search for the
\* time string raises AttributeError
ClockSyncCatchesProcessError(step) == step # "parse"

\* the bare "except:" of the clock synchronisation
ClockSyncCatches(step) == TRUE

ConnIndex(step) == CHOOSE i \in 1..Len(ConnSteps) : ConnSteps[i] = step
AfterConn(step) ==
    IF ConnIndex(step) = Len(ConnSteps) THEN "done"
    ELSE ConnSteps[ConnIndex(step) + 1]

GcStart == [pc |-> "lookup", clock |-> "none", failed |-> "none"]

\* uploadData has just called upload.run()
InitConn ==
    /\ q = <<>>
    /\ locn = None
    /\ radio = NoRadio
    /\ radioShouldBeRunning = FALSE
    /\ ledmode = "blink"
    /\ cpc = "run"
    /\ orphans = EmptyBag
    /\ store \in BootStores
    /\ retryCount = 0
    /\ attempts = 0
    /\ sent = {}
    /\ exc = "none"
    /\ okSeen = FALSE
    /\ startStore = store
    /\ bearerUp = FALSE
    /\ InitHist
    /\ at = AtIdle
    /\ sv = SvIdle
    /\ rt = RtIdle
    /\ srv = SrvIdle
    /\ gc = GcStart

\* the exception e of statement step leaves __getDataConnection
ConnRaise(step, e) ==
    /\ gc' = [gc EXCEPT !.pc = "raised", !.failed = step]
    /\ exc' = e
    /\ cpc' = "except"

\* a statement outside the retry loop and the clock synchronisation
ConnCommand ==
    /\ cpc = "run"
    /\ gc.pc \in {ConnSteps[i] : i \in 1..Len(ConnSteps)} \ (ClockSteps \cup {"poll"})
    /\ \E ok \in BOOLEAN :
         IF ok \/ gc.pc \in ToleratedSteps
           THEN /\ gc' = [gc EXCEPT !.pc = AfterConn(gc.pc)]
                /\ cpc' = IF AfterConn(gc.pc) = "done" THEN "upload" ELSE cpc
                /\ exc' = exc
           ELSE ConnRaise(gc.pc, "CalledProcessError")
    /\ UNCHANGED <<q, locn, radio, radioShouldBeRunning, ledmode, orphans, store>>
    /\ UNCHANGED <<retryCount, attempts, sent, okSeen, startStore, bearerUp>>
    /\ UNCHANGED <<histVars, at, sv, rt, srv>>

\* the retry loop, to the connected bearer or to UploadException
ConnRetryLoop ==
    /\ cpc = "run"
    /\ gc.pc = "poll"
    /\ \E nfail \in 0..MaxFailPolls :
         LET r == GetDataConnectionLoop(0, nfail) IN
         /\ retryCount' = r.retryCount
         /\ bearerUp' = ~r.raised
         /\ IF r.raised
              THEN ConnRaise(gc.pc, "UploadException")
              ELSE /\ gc' = [gc EXCEPT !.pc = AfterConn(gc.pc)]
                   /\ UNCHANGED <<cpc, exc>>
    /\ UNCHANGED <<q, locn, radio, radioShouldBeRunning, ledmode, orphans, store>>
    /\ UNCHANGED <<attempts, sent, okSeen, startStore>>
    /\ UNCHANGED <<histVars, at, sv, rt, srv>>

\* a statement of the clock synchronisation: its exception is logged and
\* the function goes on after the try block
ConnClockSync ==
    /\ cpc = "run"
    /\ gc.pc \in ClockSteps
    /\ \E ok \in BOOLEAN :
         CASE ok ->
                /\ gc' = [gc EXCEPT !.pc = AfterConn(gc.pc),
                                    !.clock = IF gc.pc = "settime" THEN "ok" ELSE @]
                /\ UNCHANGED <<cpc, exc>>
           [] ~ok /\ ClockSyncCatches(gc.pc) ->
                /\ gc' = [gc EXCEPT !.pc = "linkup", !.clock = gc.pc]
                /\ UNCHANGED <<cpc, exc>>
           [] OTHER ->
                ConnRaise(gc.pc, IF gc.pc = "parse" THEN "AttributeError"
                                                   ELSE "CalledProcessError")
    /\ UNCHANGED <<q, locn, radio, radioShouldBeRunning, ledmode, orphans, store>>
    /\ UNCHANGED <<retryCount, attempts, sent, okSeen, startStore, bearerUp>>
    /\ UNCHANGED <<histVars, at, sv, rt, srv>>

ConnNext ==
    \/ ConnCommand
    \/ ConnRetryLoop
    \/ ConnClockSync
    \/ UploadDataRead
    \/ SendCycle
    \/ GiveUp
    \/ ReceiveObject
    \/ DisableNetworkConnection
    \/ RunExcept
    \/ RunComplete

ConnSpec == InitConn /\ [][ConnNext]_vars

(***************************************************************************)
(* upload.py, __uploadData, against server.py: the send loop one socket    *)
(* exchange at a time, with the collection server receiving the request,   *)
(* saving its sites and answering.  srv.rows is the server's Cellsite      *)
(* table, as the bag of the client's rows it holds copies of; srv.req is   *)
(* the rows of the request it is serving.                                  *)
(***************************************************************************)
\* server.py, __main__: the socket is bound and the table is empty
SrvListening == [pc |-> "listen", rows |-> EmptyBag, req |-> {}]

\* the bearer is up and run() is about to call __uploadData
InitServer ==
    /\ q = <<>>
    /\ locn = None
    /\ radio = NoRadio
    /\ radioShouldBeRunning = FALSE
    /\ ledmode = "blink"
    /\ cpc = "upload"
    /\ orphans = EmptyBag
    /\ store \in BootStores
    /\ retryCount = 0
    /\ attempts = 0
    /\ sent = {}
    /\ exc = "none"
    /\ okSeen = FALSE
    /\ startStore = store
    /\ bearerUp = TRUE
    /\ InitHist
    /\ at = AtIdle
    /\ sv = SvIdle
    /\ rt = RtIdle
    /\ srv = SrvListening
    /\ gc = GcIdle

\* __uploadData: connect and the two sendall calls of one cycle; they raise,
\* or the request reaches the server, which accepts it with recvObject
ClientSend ==
    /\ cpc = "cycle"
    /\ attempts < UploadAttempts
    /\ \A i \in sent : CopiesIn(i, srv.rows) < MaxCopies
    /\ attempts' = attempts + 1
    /\ \/ /\ cpc' = "cycle"
          /\ srv' = srv
       \/ /\ srv.pc = "listen"
          /\ cpc' = "await"
          /\ srv' = [srv EXCEPT !.pc = "handle", !.req = sent]
    /\ UNCHANGED <<q, locn, radio, radioShouldBeRunning, ledmode, orphans, store>>
    /\ UNCHANGED <<histVars, at, sv, rt, gc>>
    /\ UNCHANGED <<retryCount, sent, exc, okSeen, startStore, bearerUp>>

\* __uploadData: sock.settimeout(20) expires in __receiveObject, or the
\* connection is reset; the bare "except:" logs it and the loop goes on
ClientTimeout ==
    /\ cpc = "await"
    /\ cpc' = "cycle"
    /\ UNCHANGED <<q, locn, radio, radioShouldBeRunning, ledmode, orphans, store>>
    /\ UNCHANGED <<uplVars, histVars, funVars>>

\* server.py, handleUpload: one Cellsite saved per site of the request
HandleUpload ==
    /\ srv.pc = "handle"
    /\ srv' = [srv EXCEPT !.pc = "respond", !.rows = @ (+) SetToBag(srv.req)]
    /\ UNCHANGED <<sysVars, uplVars, histVars, at, sv, rt, gc>>

\* server.py, __main__: {'status': 'OK'} is sent and the connection closed;
\* a client still waiting in __receiveObject reads it and commits
ServerRespond ==
    /\ srv.pc = "respond"
    /\ srv' = [srv EXCEPT !.pc = "listen", !.req = {}]
    /\ IF cpc = "await"
         THEN /\ store' = Commit(store, "OK")
              /\ okSeen' = TRUE
              /\ cpc' = "disable"
         ELSE UNCHANGED <<store, okSeen, cpc>>
    /\ UNCHANGED <<q, locn, radio, radioShouldBeRunning, ledmode, orphans>>
    /\ UNCHANGED <<retryCount, attempts, sent, exc, startStore, bearerUp>>
    /\ UNCHANGED <<histVars, at, sv, rt, gc>>

\* a later run() reaches __uploadData
NextUpload ==
    /\ cpc = "disable"
    /\ cpc' = "upload"
    /\ attempts' = 0
    /\ sent' = {}
    /\ okSeen' = FALSE
    /\ startStore' = store
    /\ UNCHANGED <<q, locn, radio, radioShouldBeRunning, ledmode, orphans, store>>
    /\ UNCHANGED <<retryCount, exc, bearerUp>>
    /\ UNCHANGED <<histVars, funVars>>

ServerNext ==
    \/ UploadDataRead
    \/ ClientSend
    \/ ClientTimeout
    \/ GiveUp
    \/ HandleUpload
    \/ ServerRespond
    \/ NextUpload

ServerSpec == InitServer /\ [][ServerNext]_vars

(***************************************************************************)
(* radio.py, __atGetResp: one call, against the lines the modem sends.     *)
(* A line is a sequence of chunks of text: " " stands for white space (the *)
(* "\r" before the "\n" included), "NONASCII" for a byte that is no ASCII. *)
(* The "\n" that ends a line on the wire is not part of it.                *)
(***************************************************************************)
RawLines ==
    { <<" ">>,                      \* "\r\n"
      <<"OK", " ">>,                \* "OK\r\n"
      <<"ERROR", " ">>,             \* "ERROR\r\n"
      <<"x", " ">>,                 \* "x\r\n"
      <<" ", "y", " ", "z">>,       \* " y z\n"
      <<"OK", "x">>,                \* "OKx\n"
      <<"NONASCII">> }

RECURSIVE SeqsUpTo(_, _)
SeqsUpTo(S, n) ==
    IF n = 0 THEN {<<>>}
    ELSE LET prev == SeqsUpTo(S, n - 1) IN
         prev \cup {Append(t, x) : t \in prev, x \in S}

\* str.strip(): leading and trailing white space removed
RECURSIVE LStrip(_)
LStrip(line) ==
    IF line # <<>> /\ Head(line) = " " THEN LStrip(Tail(line)) ELSE line

RECURSIVE RStrip(_)
RStrip(line) ==
    IF line # <<>> /\ line[Len(line)] = " "
      THEN RStrip(SubSeq(line, 1, Len(line) - 1))
      ELSE line

Strip(line) == RStrip(LStrip(line))

\* bytes.decode('ASCII') raises UnicodeDecodeError on a byte above 127
Decodes(line) == \A i \in 1..Len(line) : line[i] # "NONASCII"

IsTerminator(line) == line = <<"OK">> \/ line = <<"ERROR">>

\* the loop body with its test left out: every line is appended
AccumulateBlank(data, line) == data \o line \o <<"\n">>

\* the loop body: data += line + '\n' unless the line is empty
Accumulate(data, line) ==
    IF line # <<>> THEN data \o line \o <<"\n">> ELSE data

\* the raise with errorOK ignored
RaisesOnAnyError(line, errorOK) == line = <<"ERROR">>

\* if line == "ERROR" and not errorOK: raise RadioException
Raises(line, errorOK) == line = <<"ERROR">> /\ ~errorOK

AtCall(reply, errorOK) ==
    [pc |-> "write", reply |-> reply, input |-> reply, errorOK |-> errorOK,
     line |-> <<>>, data |-> <<>>]

InitAt ==
    /\ InitRunner
    /\ InitUpload
    /\ InitHist
    /\ store = <<>>
    /\ sv = SvIdle
    /\ rt = RtIdle
    /\ srv = SrvIdle
    /\ gc = GcIdle
    /\ at \in {AtCall(r, e) : r \in SeqsUpTo(RawLines, MaxReply), e \in BOOLEAN}

\* write the command, then read and drop the echo, undecoded
AtEcho ==
    /\ at.pc = "write"
    /\ at.input # <<>>
    /\ at' = [at EXCEPT !.pc = "readline", !.input = Tail(@)]
    /\ UNCHANGED <<sysVars, uplVars, histVars, sv, rt, srv, gc>>

\* line = self.atx.readline().decode('ASCII').strip()
AtReadLine ==
    /\ at.pc = "readline"
    /\ at.input # <<>>
    /\ at' = IF Decodes(Head(at.input))
               THEN [at EXCEPT !.pc = "loop", !.input = Tail(@),
                               !.line = Strip(Head(at.input))]
               ELSE [at EXCEPT !.pc = "UnicodeDecodeError", !.input = Tail(@)]
    /\ UNCHANGED <<sysVars, uplVars, histVars, sv, rt, srv, gc>>

\* the while test and body, and what follows the loop
AtLoop ==
    /\ at.pc = "loop"
    /\ at' = IF ~IsTerminator(at.line)
               THEN [at EXCEPT !.pc = "readline", !.data = Accumulate(@, at.line)]
               ELSE IF Raises(at.line, at.errorOK)
                      THEN [at EXCEPT !.pc = "RadioException"]
                      ELSE [at EXCEPT !.pc = "returned"]
    /\ UNCHANGED <<sysVars, uplVars, histVars, sv, rt, srv, gc>>

AtNext ==
    \/ AtEcho
    \/ AtReadLine
    \/ AtLoop

AtSpec == InitAt /\ [][AtNext]_vars

(***************************************************************************)
(* What the reply is, read as "echo, payload lines, terminator".           *)
(***************************************************************************)
TerminatorAt(reply, i) ==
    /\ i \in 2..Len(reply)
    /\ Decodes(reply[i])
    /\ IsTerminator(Strip(reply[i]))

HasTerminator(reply) == \E i \in 2..Len(reply) : TerminatorAt(reply, i)

TerminatorIndex(reply) ==
    CHOOSE i \in 2..Len(reply) :
        TerminatorAt(reply, i) /\ \A j \in 2..(i - 1) : ~TerminatorAt(reply, j)

Payload(reply) == SubSeq(reply, 2, TerminatorIndex(reply) - 1)

\* the lines of a returned string: split at each "\n"
RECURSIVE LinesOf(_)
LinesOf(data) ==
    IF data = <<>> THEN <<>>
    ELSE LET k == CHOOSE i \in 1..Len(data) :
                      data[i] = "\n" /\ \A j \in 1..(i - 1) : data[j] # "\n"
         IN <<SubSeq(data, 1, k - 1)>> \o LinesOf(SubSeq(data, k + 1, Len(data)))

StrippedPayload(reply) ==
    [i \in 1..Len(Payload(reply)) |-> Strip(Payload(reply)[i])]

NonBlank(line) == line # <<>>

(***************************************************************************)
(* radio.py, __networkScan: the parse of one survey response, the string   *)
(* that __atGetResp returned: stripped, non-blank lines, each followed by  *)
(* "\n".  The first token of a line names its format, token k of a line    *)
(* (counted from 0, as lineItems[k]) is the text of the number k.          *)
(***************************************************************************)
Tags == {"earfcn:", "uarfcn:", "arfcn:", "other:"}
FieldCounts == {11, 12, 14, 15, 16}

RECURSIVE MkLine(_, _)
MkLine(tag, n) ==
    IF n = 1 THEN <<tag>>
    ELSE MkLine(tag, n - 1) \o <<" ", ToString(n - 1)>>

SurveyLines ==
    {MkLine(tag, n) : tag \in Tags \ {"other:"}, n \in FieldCounts}
        \cup {MkLine("other:", 12)}

RECURSIVE JoinLines(_)
JoinLines(lines) ==
    IF lines = <<>> THEN <<>>
    ELSE Head(lines) \o <<"\n">> \o JoinLines(Tail(lines))

\* str.split("\n"): the pieces between the "\n", the last one included
RECURSIVE SplitNL(_)
SplitNL(data) ==
    IF \A i \in 1..Len(data) : data[i] # "\n" THEN <<data>>
    ELSE LET k == CHOOSE i \in 1..Len(data) :
                      data[i] = "\n" /\ \A j \in 1..(i - 1) : data[j] # "\n"
         IN <<SubSeq(data, 1, k - 1)>> \o SplitNL(SubSeq(data, k + 1, Len(data)))

\* str.split(): the tokens between runs of white space
IsToken(c) == c # " "
SplitWS(line) == SelectSeq(line, IsToken)

\* str.startswith, on the first chunk of the line
StartsWith(line, prefix) == line # <<>> /\ line[1] = prefix \o ":"

\* lineItems[k] for each field, per format
Fields4g == [rx |-> 3, mcc |-> 5, mnc |-> 7, cellid |-> 9, lac |-> 11]
Fields3g == [rx |-> 3, mcc |-> 5, mnc |-> 7, cellid |-> 12, lac |-> 14]
Fields2g == [rx |-> 5, mcc |-> 9, mnc |-> 11, lac |-> 13, cellid |-> 15]

\* one "if line.startswith(...)" block: the sites it appends, and whether
\* an index was out of range
Block(line, prefix, fields, gen) ==
    LET items == SplitWS(line) IN
    IF ~StartsWith(line, prefix) THEN [sites |-> <<>>, failed |-> FALSE]
    ELSE IF \E f \in DOMAIN fields : fields[f] >= Len(items)
      THEN [sites |-> <<>>, failed |-> TRUE]
      ELSE [sites |-> <<[rx |-> items[fields.rx + 1], mcc |-> items[fields.mcc + 1],
                         mnc |-> items[fields.mnc + 1], lac |-> items[fields.lac + 1],
                         cellid |-> items[fields.cellid + 1], gen |-> gen]>>,
            failed |-> FALSE]

\* the body of the try: the three blocks in order, left at the first IndexError
ParseLine(line) ==
    LET b4 == Block(line, "earfcn", Fields4g, "4g")
        b3 == Block(line, "uarfcn", Fields3g, "3g")
        b2 == Block(line, "arfcn", Fields2g, "2g")
    IN  IF b4.failed THEN b4
        ELSE IF b3.failed THEN [sites |-> b4.sites, failed |-> TRUE]
        ELSE [sites |-> b4.sites \o b3.sites \o b2.sites, failed |-> b2.failed]

\* the try around the whole loop: an IndexError ends the parse
AbortOnBadLine(i, n, failed) == IF failed THEN n + 1 ELSE i + 1

\* the try inside the loop: after the warning the loop goes on
AfterLine(i, n, failed) == i + 1

SvCall(resp) ==
    [pc |-> "call", resp |-> resp, data |-> JoinLines(resp), lines |-> <<>>,
     i |-> 0, sites |-> <<>>, warnings |-> 0]

InitSv ==
    /\ InitRunner
    /\ InitUpload
    /\ InitHist
    /\ store = <<>>
    /\ at = AtIdle
    /\ rt = RtIdle
    /\ srv = SrvIdle
    /\ gc = GcIdle
    /\ sv \in {SvCall(r) : r \in SeqsUpTo(SurveyLines, MaxLines)}

\* sites = []; for line in lines.split("\n"):
SvSplit ==
    /\ sv.pc = "call"
    /\ sv' = [sv EXCEPT !.pc = "loop", !.lines = SplitNL(sv.data), !.i = 1]
    /\ UNCHANGED <<sysVars, uplVars, histVars, at, rt, srv, gc>>

\* one pass of the loop body
SvLine ==
    /\ sv.pc = "loop"
    /\ sv.i <= Len(sv.lines)
    /\ LET r == ParseLine(sv.lines[sv.i]) IN
       sv' = [sv EXCEPT !.sites = @ \o r.sites,
                        !.warnings = IF r.failed THEN @ + 1 ELSE @,
                        !.i = AfterLine(sv.i, Len(sv.lines), r.failed)]
    /\ UNCHANGED <<sysVars, uplVars, histVars, at, rt, srv, gc>>

\* return sites
SvReturn ==
    /\ sv.pc = "loop"
    /\ sv.i > Len(sv.lines)
    /\ sv' = [sv EXCEPT !.pc = "returned"]
    /\ UNCHANGED <<sysVars, uplVars, histVars, at, rt, srv, gc>>

SvNext ==
    \/ SvSplit
    \/ SvLine
    \/ SvReturn

SvSpec == InitSv /\ [][SvNext]_vars

(***************************************************************************)
(* radio.py, RadioThread.run: one worker, statement by statement, with the *)
(* Runner handling the events it puts on the queue.  rt.inhibit says that  *)
(* the "mmcli --inhibit" child started by run() is alive; rt.last is how   *)
(* the latest survey cycle, or the startup step that ended run(), came out;*)
(* rt.log is the AT exchanges of the startup, in the order they were made, *)
(* each with its reply; rt.after counts the survey cycles that completed   *)
(* after stop(), and rt.early says that stop() came before the loop.       *)
(***************************************************************************)
\* run() before the survey loop, in program order
StartupSteps == <<"lookup", "inhibit", "open", "reset", "identify", "gpsp", "nmea">>

\* what a startup step can meet: success, an ERROR reply of the modem, or a
\* failing command, port or search
StepOutcomes == {"OK", "ERROR", "failure"}

\* every ERROR reply tolerated, as AT$GPSP=1's is
StepToleratesError(step, outcome) == outcome = "failure"

\* the step raises: only __atGetResp reads a reply, and AT$GPSP=1 is sent
\* with errorOK=True
StepRaises(step, outcome) ==
    CASE outcome = "OK" -> FALSE
      [] outcome = "failure" -> TRUE
      [] OTHER -> step \in {"identify", "nmea"}

\* a step whose reply cannot be ERROR
NoReply(step) == step \in {"lookup", "inhibit", "open", "reset"}

StepIndex(step) == CHOOSE i \in 1..Len(StartupSteps) : StartupSteps[i] = step
AfterStep(step) ==
    IF StepIndex(step) = Len(StartupSteps) THEN "loop"
    ELSE StartupSteps[StepIndex(step) + 1]

\* what one survey cycle can end with
ScanOutcomes == {"ok", "RadioException", "UnicodeDecodeError", "SerialException"}

\* a handler for the protocol error alone
ScanCatchesRadioOnly(e) == e = "RadioException"

\* run: "except Exception:" around __networkScan and q.put
ScanCatches(e) == e \in {"RadioException", "UnicodeDecodeError", "SerialException"}

\* the startup steps that talk to the modem over the AT port
AtSteps == {"reset", "identify", "gpsp", "nmea"}

\* a loop that goes on whatever the flag says
LoopIgnoresStop(live) == TRUE

\* run: "while self.live:"
LoopContinues(live) == live

RtWorker == [pc |-> "lookup", live |-> TRUE, inhibit |-> FALSE, last |-> "none",
             log |-> <<>>, after |-> 0, early |-> FALSE]

\* handleUploadComplete has just started the worker; the Runner is in step()
InitRt ==
    /\ q = <<>>
    /\ locn = None
    /\ radio = NoRadio
    /\ radioShouldBeRunning = TRUE
    /\ ledmode = "off"
    /\ cpc = "idle"
    /\ orphans = EmptyBag
    /\ store = <<>>
    /\ InitUpload
    /\ InitHist
    /\ at = AtIdle
    /\ sv = SvIdle
    /\ rt = RtWorker
    /\ srv = SrvIdle
    /\ gc = GcIdle

\* one statement of run() before the loop; an exception ends run() there
RtStartup ==
    /\ rt.pc \in {StartupSteps[i] : i \in 1..Len(StartupSteps)}
    /\ \E outcome \in StepOutcomes :
         /\ NoReply(rt.pc) => outcome # "ERROR"
         /\ LET entry == IF rt.pc \in AtSteps
                            THEN <<[step |-> rt.pc, reply |-> outcome]>> ELSE <<>>
            IN rt' = IF StepRaises(rt.pc, outcome)
                       THEN [rt EXCEPT !.pc = "ended", !.last = rt.pc,
                                       !.log = @ \o entry]
                       ELSE [rt EXCEPT !.pc = AfterStep(rt.pc),
                                       !.inhibit = (@ \/ rt.pc = "inhibit"),
                                       !.log = @ \o entry]
    /\ UNCHANGED <<sysVars, uplVars, histVars, at, sv, srv, gc>>

\* while self.live:
RtLoop ==
    /\ rt.pc = "loop"
    /\ rt' = [rt EXCEPT !.pc = IF LoopContinues(rt.live) THEN "scan" ELSE "kill"]
    /\ UNCHANGED <<sysVars, uplVars, histVars, at, sv, srv, gc>>

\* try: sites = self.__networkScan(); self.q.put(['NetworkData', sites])
\* except Exception: log.exception(...)
RtScan ==
    /\ rt.pc = "scan"
    /\ rt.after < MaxAfter
    /\ \E outcome \in ScanOutcomes :
         LET n == IF rt.live THEN 0 ELSE rt.after + 1 IN
         IF outcome = "ok"
           THEN /\ Len(q) < MaxQueue
                /\ \E sites \in SiteLists : q' = Append(q, Event("NetworkData", sites))
                /\ rt' = [rt EXCEPT !.pc = "sleep", !.last = outcome, !.after = n]
           ELSE /\ q' = q
                /\ rt' = [rt EXCEPT !.pc = IF ScanCatches(outcome) THEN "sleep" ELSE "ended",
                                    !.last = outcome, !.after = n]
    /\ UNCHANGED <<locn, radio, radioShouldBeRunning, ledmode, cpc, orphans, store>>
    /\ UNCHANGED <<uplVars, histVars, at, sv, srv, gc>>

\* time.sleep(1)
RtSleep ==
    /\ rt.pc = "sleep"
    /\ rt' = [rt EXCEPT !.pc = "loop"]
    /\ UNCHANGED <<sysVars, uplVars, histVars, at, sv, srv, gc>>

\* mmProcess.kill(), and run() returns
RtKill ==
    /\ rt.pc = "kill"
    /\ rt' = [rt EXCEPT !.pc = "ended", !.inhibit = FALSE]
    /\ UNCHANGED <<sysVars, uplVars, histVars, at, sv, srv, gc>>

\* Runner.uploadData up to self.radio.join(): the indicator, the flag, and
\* RadioThread.stop for a worker that is alive
RtStop ==
    /\ cpc = "idle"
    /\ rt.pc \notin {"idle", "ended"}
    /\ rt.live
    /\ rt' = [rt EXCEPT !.live = FALSE,
                        !.early = rt.pc \in {StartupSteps[i] : i \in 1..Len(StartupSteps)}]
    /\ ledmode' = "blink"
    /\ radioShouldBeRunning' = FALSE
    /\ cpc' = "join"
    /\ UNCHANGED <<q, locn, radio, orphans, store>>
    /\ UNCHANGED <<uplVars, histVars, at, sv, srv, gc>>

\* uploadData: self.radio.join() returns once run() has returned
RtJoin ==
    /\ cpc = "join"
    /\ rt.pc = "ended"
    /\ cpc' = "joined"
    /\ UNCHANGED <<q, locn, radio, radioShouldBeRunning, ledmode, orphans, store>>
    /\ UNCHANGED <<uplVars, histVars, funVars>>

RtNext ==
    \/ RtStartup
    \/ RtLoop
    \/ RtScan
    \/ RtSleep
    \/ RtKill
    \/ RtStop
    \/ RtJoin
    \/ HandleNetworkData

RtSpec == InitRt /\ [][RtNext]_vars

(***************************************************************************)
(* What a survey line is, by its format and its number of fields.          *)
(***************************************************************************)
GenOf(line) ==
    CASE line[1] = "earfcn:" -> "4g"
      [] line[1] = "uarfcn:" -> "3g"
      [] line[1] = "arfcn:" -> "2g"
      [] OTHER -> "none"

FieldsNeeded(gen) ==
    CASE gen = "4g" -> 12
      [] gen = "3g" -> 15
      [] gen = "2g" -> 16
      [] OTHER -> 0

TokenCount(line) == Cardinality({i \in 1..Len(line) : line[i] # " "})

Recognised(line) == GenOf(line) # "none"
WellFormedLine(line) ==
    Recognised(line) /\ TokenCount(line) >= FieldsNeeded(GenOf(line))
Malformed(line) == Recognised(line) /\ ~WellFormedLine(line)

(***************************************************************************)
(* C1: the Network Scanner and the Uploader are never both running: there  *)
(* is no state in which UploadThread.run is in progress while a            *)
(* RadioThread is between the start of run() and its return.               *)
(***************************************************************************)
C1_MutualExclusion ==
    ~(UploadRunning /\ (ThreadAlive(radio) \/ orphans # EmptyBag))

(***************************************************************************)
(* C2: every started upload attempt eventually puts UploadComplete on the  *)
(* queue, whatever bearer connect, the send cycles and disconnect do.      *)
(***************************************************************************)
C2_UploadCompletes == UploadRunning ~> (cpc = "idle")

(***************************************************************************)
(* C3: as long as an upload attempt has received no reply with status      *)
(* "OK", the table is what it was when the attempt started: no row is      *)
(* marked uploaded, whether bearer connect failed, cycles failed with an   *)
(* I/O error or replies carried another status.                            *)
(***************************************************************************)
C3_NoMarkWithoutOK ==
    (cpc \in {"upload", "cycle", "recv", "disable", "except", "complete"} /\ ~okSeen)
        => store = startStore

C3_Witness ==
    /\ cpc = "disable"
    /\ ~okSeen
    /\ attempts = UploadAttempts
    /\ UnuploadedIds(store) # {}

(***************************************************************************)
(* C4: when a cycle gets a reply with status "OK", the rows whose uploaded *)
(* flag goes from false to true are exactly the rows that were read and    *)
(* serialized into the request, and nothing else of the table changes.     *)
(***************************************************************************)
C4_MarksExactlySent ==
    (cpc = "disable" /\ okSeen) =>
        /\ Len(store) = Len(startStore)
        /\ {i \in 1..Len(store) : ~startStore[i].uploaded /\ store[i].uploaded} = sent
        /\ \A i \in 1..Len(store) :
              /\ store[i].site = startStore[i].site
              /\ store[i].locn = startStore[i].locn
              /\ startStore[i].uploaded => store[i].uploaded

C4_Witness ==
    /\ cpc = "disable"
    /\ okSeen
    /\ sent # {}
    /\ \E i \in 1..Len(startStore) : startStore[i].uploaded

(***************************************************************************)
(* C5: with a server that never replies "OK", the Uploader performs        *)
(* exactly 5 cycles and then stops retrying and goes on to report          *)
(* completion: every attempt that starts its send loop either gets an "OK" *)
(* or leaves the loop after exactly UploadAttempts cycles.                 *)
(***************************************************************************)
C5_UploadBound ==
    (cpc = "cycle") ~> (okSeen \/ (cpc = "disable" /\ attempts = UploadAttempts))

(***************************************************************************)
(* C6: when bearer connect fails with the connect-timeout error, it has    *)
(* performed at most 10 retries.                                           *)
(***************************************************************************)
C6_RetryBound ==
    (cpc = "except" /\ exc = "UploadException") => retryCount <= BearerRetryLimit

(***************************************************************************)
(* C7: handling UploadComplete unsets the latest known position, it stays  *)
(* unset until a LocationFix is handled, and a NetworkData event handled   *)
(* in between persists no Observation.                                     *)
(***************************************************************************)
C7_PositionStale ==
    /\ [](ucNoFix => locn = None)
    /\ [][(HandleUploadComplete => locn' = None)
          /\ ((ucNoFix /\ HandleNetworkData) => store' = store)]_vars

C7_Witness == ndNoFix

(***************************************************************************)
(* C8 as stated: whenever send returns, it returns exactly the payload     *)
(* lines of the reply, in order, without the echo and the terminator.      *)
(***************************************************************************)
C8_ReturnsPayload ==
    at.pc = "returned" => LinesOf(at.data) = StrippedPayload(at.reply)

(***************************************************************************)
(* C8 as amended: whenever send returns, it has dropped the first line     *)
(* whatever its content, and returns, in order, the payload lines that are *)
(* not blank, each without its surrounding white space; it has read the    *)
(* reply up to its terminator and no further.                              *)
(***************************************************************************)
C8_ReturnsNonBlankPayload ==
    at.pc = "returned" =>
        /\ HasTerminator(at.reply)
        /\ LinesOf(at.data) = SelectSeq(StrippedPayload(at.reply), NonBlank)
        /\ at.input = SubSeq(at.reply, TerminatorIndex(at.reply) + 1, Len(at.reply))

C8_Witness ==
    /\ at.pc = "returned"
    /\ at.reply[1] = <<"OK", " ">>
    /\ Len(LinesOf(at.data)) = 2
    /\ Len(Payload(at.reply)) = 2

(***************************************************************************)
(* C9: send fails with the protocol error exactly when the terminator is   *)
(* ERROR and the caller did not allow an error response: a reply ended by  *)
(* ERROR with errors allowed returns the accumulated payload, and a reply  *)
(* ended by OK never fails with it.  The one other way a call ends is the  *)
(* decode error of a line that is not ASCII, which is raised before the    *)
(* line is looked at and so is no protocol error.                          *)
(***************************************************************************)
C9_ProtocolErrorIff ==
    /\ at.pc \in {"returned", "RadioException"} =>
          /\ HasTerminator(at.reply)
          /\ (at.pc = "RadioException") <=>
                (Strip(at.reply[TerminatorIndex(at.reply)]) = <<"ERROR">> /\ ~at.errorOK)
    /\ at.pc = "UnicodeDecodeError" =>
          \E i \in 2..Len(at.reply) : ~Decodes(at.reply[i])

C9_Witness ==
    /\ at.pc = "returned"
    /\ at.errorOK
    /\ Strip(at.reply[TerminatorIndex(at.reply)]) = <<"ERROR">>
    /\ at.data # <<>>

(***************************************************************************)
(* C10: the parse of a survey response yields one Site for each            *)
(* well-formed 2G/3G/4G line, in order, and none for any other line; a     *)
(* line that fails to parse costs one warning and keeps no line before or  *)
(* after it from being parsed.                                             *)
(***************************************************************************)
C10_SurveyResilience ==
    sv.pc = "returned" =>
        LET good == SelectSeq(sv.resp, WellFormedLine) IN
        /\ Len(sv.sites) = Len(good)
        /\ \A i \in 1..Len(good) : sv.sites[i].gen = GenOf(good[i])
        /\ sv.warnings = Len(SelectSeq(sv.resp, Malformed))

C10_Witness ==
    /\ sv.pc = "returned"
    /\ Len(sv.resp) = 3
    /\ GenOf(sv.resp[1]) = "2g" /\ WellFormedLine(sv.resp[1])
    /\ Malformed(sv.resp[2])
    /\ GenOf(sv.resp[3]) = "4g" /\ WellFormedLine(sv.resp[3])
    /\ Len(sv.sites) = 2
    /\ sv.warnings = 1

(***************************************************************************)
(* C11: in the survey loop a cycle that raises an exception puts nothing   *)
(* on the queue and leaves the worker in the loop, where the next cycle    *)
(* runs; a cycle that completes puts exactly one NetworkData event; and    *)
(* the loop is left only with the liveness flag cleared.                   *)
(***************************************************************************)
C11_SurveyLoop ==
    /\ [](rt.pc = "kill" => ~rt.live)
    /\ [][/\ RtScan =>
              /\ rt'.pc = "sleep"
              /\ IF rt'.last = "ok"
                   THEN \E sites \in SiteLists :
                           q' = Append(q, Event("NetworkData", sites))
                   ELSE q' = q
          /\ (RtSleep => rt'.pc = "loop")
          /\ (RtLoop /\ rt.live => rt'.pc = "scan")]_vars

C11_Witness ==
    /\ rt.pc = "scan"
    /\ rt.last \in ScanOutcomes \ {"ok"}
    /\ rt.live
    /\ q = <<>>

(***************************************************************************)
(* C15: whenever a scanner worker has ended, by a normal stop or by a      *)
(* fatal failure of its startup, the modem-manager inhibition it acquired  *)
(* has been released.                                                      *)
(***************************************************************************)
C15_InhibitionReleased == rt.pc = "ended" => ~rt.inhibit

(***************************************************************************)
(* Steps of the Coordinator that C12 and C13 speak of.                     *)
(***************************************************************************)
\* uploadData is entered: the Runner leaves step(), or the boot sequence
UploadTriggered == cpc \in {"boot", "idle"} /\ cpc' \in {"join", "run"}

\* stop() is called on the scanner self.radio refers to
ScannerStopped ==
    /\ ThreadAlive(radio) /\ radio.live
    /\ ThreadAlive(radio') /\ ~radio'.live

\* step() takes a ControlEvent of under one second off the queue
ShortPressHandled ==
    /\ cpc = "idle" /\ q # <<>>
    /\ Head(q).type = "PanelEvent"
    /\ Head(q).data < PressThreshold
    /\ q' = Tail(q)

LongPressHandled ==
    /\ cpc = "idle" /\ q # <<>>
    /\ Head(q).type = "PanelEvent"
    /\ Head(q).data >= PressThreshold
    /\ q' = Tail(q)

(***************************************************************************)
(* C12 as stated: the scanner is stopped and the Uploader started only by  *)
(* the handling of a ControlEvent of under one second; no other event and  *)
(* no startup step does either.                                            *)
(***************************************************************************)
C12_OnlyShortPress ==
    [][(UploadTriggered \/ ScannerStopped) => ShortPressHandled]_vars

(***************************************************************************)
(* C12 as amended: the Uploader is started by the boot sequence, once,     *)
(* before any event is handled and with no scanner to stop, and otherwise  *)
(* only by the handling of a ControlEvent of under one second; nothing     *)
(* else stops the scanner or starts the Uploader.                          *)
(***************************************************************************)
C12_OnlyBootOrShortPress ==
    [][(UploadTriggered \/ ScannerStopped) =>
          \/ ShortPressHandled
          \/ (cpc = "boot" /\ radio = NoRadio /\ ~ScannerStopped)]_vars

C12_Witness ==
    /\ cpc = "join"
    /\ ThreadAlive(radio)
    /\ ~radio.live
    /\ ledmode = "blink"

(***************************************************************************)
(* C13: handling a ControlEvent of one second or more changes nothing of   *)
(* the Coordinator: the scanner is not stopped, no Uploader is started,    *)
(* the indicator, the latest known position and the store stay as they are.*)
(***************************************************************************)
C13_LongPressIgnored ==
    [][LongPressHandled =>
          UNCHANGED <<locn, radio, radioShouldBeRunning, ledmode, cpc, orphans, store>>]_vars

\* a long press is about to be handled while a scanner runs, a position is
\* known, the indicator is on and the store holds records
C13_Witness ==
    /\ cpc = "idle" /\ q # <<>>
    /\ Head(q).type = "PanelEvent" /\ Head(q).data >= PressThreshold
    /\ ThreadAlive(radio) /\ radio.live
    /\ locn # None
    /\ ledmode = "on"
    /\ store # <<>>

(***************************************************************************)
(* The boot upload followed by the Runner's handling of its                *)
(* UploadComplete, with every step that can be taken eventually taken.     *)
(***************************************************************************)
CycleNext ==
    \/ MainUploadData
    \/ UploadStep
    \/ HandleUploadComplete

CycleSpec == Init /\ [][CycleNext]_vars /\ WF_vars(CycleNext)

(***************************************************************************)
(* C14: every upload trigger is eventually followed by the Coordinator     *)
(* handling UploadComplete: the indicator is set to off and a Network      *)
(* Scanner worker is started, also when bearer connect or the send fails.  *)
(***************************************************************************)
C14_ScannerRestarts ==
    (cpc = "run") ~> (cpc = "idle" /\ ThreadAlive(radio) /\ ledmode = "off")

(***************************************************************************)
(* C16: whenever UploadComplete is about to be emitted, the bearer the     *)
(* attempt brought up has been released: no attempt ends with the          *)
(* interface up and the bearer connected.                                  *)
(***************************************************************************)
C16_BearerTornDown == cpc = "complete" => ~bearerUp

(***************************************************************************)
(* C17: the position the Coordinator holds is the one of the LocationFix   *)
(* it handled last, unless an UploadComplete cleared it since; a           *)
(* NetworkData event handled while a position is held appends one          *)
(* Observation per reported Site, in order, not uploaded and carrying that *)
(* position, and one handled while none is held appends nothing.           *)
(***************************************************************************)
C17_PersistsWithLatestFix ==
    [][/\ HandleLocationFix => locn' = Head(q).data
       /\ locn' # locn =>
             \/ HandleLocationFix
             \/ (HandleUploadComplete /\ locn' = None)
       /\ HandleNetworkData =>
             LET sites == Head(q).data IN
             IF locn # None
               THEN /\ Len(store') = Len(store) + Len(sites)
                    /\ SubSeq(store', 1, Len(store)) = store
                    /\ \A i \in 1..Len(sites) :
                          store'[Len(store) + i] =
                              [site |-> sites[i], locn |-> locn, uploaded |-> FALSE]
               ELSE store' = store]_vars

\* a fix 2 replaced a fix 1, and sites were saved under each
C17_Witness ==
    /\ ledmode = "on"
    /\ locn = 2
    /\ Len(store) = 2
    /\ store[1].locn = 1 /\ store[2].locn = 2
    /\ ~store[2].uploaded

(***************************************************************************)
(* C18: in every step the table keeps all its rows, each with its site and *)
(* position; no uploaded flag goes back to false; and a flag goes from     *)
(* false to true only in a send cycle that received "OK" for a request     *)
(* that contained the row.                                                 *)
(***************************************************************************)
C18_StoreMonotonic ==
    [][/\ Len(store') >= Len(store)
       /\ \A i \in 1..Len(store) :
             /\ store'[i].site = store[i].site
             /\ store'[i].locn = store[i].locn
             /\ store[i].uploaded => store'[i].uploaded
             /\ (~store[i].uploaded /\ store'[i].uploaded) =>
                   (cpc = "cycle" /\ okSeen' /\ i \in sent)]_vars

C18_Witness ==
    /\ okSeen
    /\ Len(store) = Len(startStore)
    /\ \E i \in sent : store[i].uploaded /\ ~startStore[i].uploaded
    /\ \E i \in 1..Len(store) : i \notin sent

(***************************************************************************)
(* C19: an upload attempt that finds no row with uploaded = false runs no  *)
(* connect + send + receive cycle at all.                                  *)
(***************************************************************************)
C19_TrivialSend ==
    (cpc \in {"cycle", "recv", "disable"} /\ sent = {}) => attempts = 0

(***************************************************************************)
(* C20: at most one Network Scanner worker is running at any time.         *)
(***************************************************************************)
C20_SingleScanner ==
    BagCardinality(orphans) + (IF ThreadAlive(radio) THEN 1 ELSE 0) <= 1

(***************************************************************************)
(* C21: once the Coordinator's join() on the scanner it stopped has        *)
(* returned, that worker's run() has ended, and a worker whose run() has   *)
(* ended takes no further step: it sends no AT command and puts no         *)
(* NetworkData event on the queue.  After stop() at most one survey cycle  *)
(* completes, and none if stop() came before the worker reached the loop.  *)
(***************************************************************************)
C21_StopJoinHandoff ==
    /\ [](cpc = "joined" => rt.pc = "ended")
    /\ [](~rt.live => rt.after <= 1)
    /\ [](rt.early => rt.after = 0)
    /\ [][rt.pc = "ended" => (rt' = rt /\ Len(q') <= Len(q))]_vars

\* join() has returned for a worker that was stopped in the middle of a
\* cycle, which it completed, leaving its NetworkData event on the queue
C21_Witness ==
    /\ cpc = "joined"
    /\ ~rt.live /\ ~rt.early
    /\ rt.after = 1
    /\ rt.last = "ok"
    /\ q # <<>> /\ Head(q).type = "NetworkData"

(***************************************************************************)
(* C22: the worker's AT exchanges before the survey loop are the reset,    *)
(* AT+GMM, AT$GPSP=1 and AT$GPSNMUN=2,1,1,1,1,1,1, in that order; an ERROR *)
(* reply to AT$GPSP=1 does not end run() and one to AT$GPSNMUN does; and   *)
(* the worker is in the survey loop, has run a survey or has put a         *)
(* NetworkData event only with all four made and the reset, AT+GMM and     *)
(* AT$GPSNMUN successful.                                                  *)
(***************************************************************************)
C22_StartupOrder ==
    LET order == <<"reset", "identify", "gpsp", "nmea">>
        inLoop == \/ rt.pc \in {"loop", "scan", "sleep", "kill"}
                  \/ rt.last \in ScanOutcomes
                  \/ q # <<>>
    IN /\ Len(rt.log) <= Len(order)
       /\ \A i \in 1..Len(rt.log) : rt.log[i].step = order[i]
       /\ (rt.pc = "ended" /\ rt.last = "gpsp") => rt.log[3].reply = "failure"
       /\ (Len(rt.log) = 4 /\ rt.log[4].reply # "OK") =>
             (rt.pc = "ended" /\ rt.last = "nmea")
       /\ inLoop =>
             /\ Len(rt.log) = 4
             /\ rt.log[1].reply = "OK"
             /\ rt.log[2].reply = "OK"
             /\ rt.log[4].reply = "OK"

\* the modem answered ERROR to AT$GPSP=1, and the worker went on to survey
\* and put its result on the queue
C22_Witness ==
    /\ Len(rt.log) = 4
    /\ rt.log[3].reply = "ERROR"
    /\ rt.last = "ok"
    /\ rt.pc = "sleep"
    /\ q # <<>> /\ Head(q).type = "NetworkData"

(***************************************************************************)
(* C23: from the Uploader's select of the rows with uploaded = false until *)
(* its commit or its giving up, no step inserts a row into the table,      *)
(* whatever NetworkData events are waiting on the queue meanwhile.         *)
(***************************************************************************)
C23_NoInsertDuringUpload ==
    [][(cpc \in {"cycle", "recv"}) => Len(store') = Len(store)]_vars

\* the Uploader has read the unsent rows and is sending them while a
\* NetworkData event with a site waits on the queue and a position is held
C23_Witness ==
    /\ cpc = "cycle"
    /\ attempts > 0
    /\ sent # {}
    /\ locn # None
    /\ q # <<>> /\ Head(q).type = "NetworkData" /\ Head(q).data # <<>>

(***************************************************************************)
(* C24: the collection server never holds two copies of one of the         *)
(* client's rows, that is, no row it has saved is sent to it again by a    *)
(* later cycle or a later run; and what a run sends is every row that is   *)
(* not yet marked uploaded.                                                *)
(***************************************************************************)
C24_NoResend ==
    /\ \A i \in 1..Len(store) : CopiesIn(i, srv.rows) <= 1
    /\ cpc \in {"cycle", "await"} => sent = UnuploadedIds(store)

(***************************************************************************)
(* C26: no exception of the clock synchronisation leaves                   *)
(* __getDataConnection: when one of its four steps fails, the function     *)
(* goes on with "ip link set ... up", no exception is in flight, and the   *)
(* run, if the interface and route commands succeed, reaches __uploadData  *)
(* and makes at least one send cycle.                                      *)
(***************************************************************************)
C26_ClockSyncSwallowed ==
    /\ [](gc.failed \notin ClockSteps)
    /\ [][(gc.pc \in ClockSteps /\ gc'.clock \in ClockSteps) =>
             /\ gc'.pc = "linkup"
             /\ cpc' = "run"
             /\ exc' = "none"]_vars
    /\ []((gc.clock \in ClockSteps /\ gc.pc = "raised") => gc.failed \in IpSteps)
    /\ []((gc.clock \in ClockSteps /\ gc.pc = "done") =>
             /\ cpc \in {"upload", "cycle", "recv", "disable", "except", "complete", "idle"}
             /\ cpc \in {"disable"} => attempts >= 1)

\* the search for the time string failed, and the run went on to send the
\* unsent rows and got "OK"
C26_Witness ==
    /\ gc.clock = "parse"
    /\ gc.pc = "done"
    /\ cpc = "disable"
    /\ okSeen
    /\ sent # {}

(***************************************************************************)
(* C25: from an upload trigger until the UploadComplete it results in has  *)
(* been handled, that is, while uploadData is running or an UploadComplete *)
(* event is on the queue, the indicator is not "on".                       *)
(***************************************************************************)
C25_NoOnDuringUpload ==
    (\/ cpc \in {"join", "run", "upload", "cycle", "recv", "disable", "except", "complete"}
     \/ \E i \in 1..Len(q) : q[i].type = "UploadComplete")
       => ledmode # "on"

====
